---- MODULE Spec2Model ----
(***************************************************************************)
(* Policy Radar retrieval core: PolicyVectorStore (vector_indexer.py),     *)
(* PolicyRAGService (rag_service.py), the server modules that load and     *)
(* reload them (api_server.py, enhanced_main.py), the rate limiter of      *)
(* enhanced_main.py and the document cache of api_server_simple.py.        *)
(*                                                                         *)
(* Texts are sequences of one-character strings, queries and expansion     *)
(* terms are sequences of lower-case words.  Embeddings are integer        *)
(* vectors of a fixed norm, scores are their inner products.               *)
(***************************************************************************)
EXTENDS Integers, Sequences, FiniteSets, TLC

VARIABLES
    chunks,       \* PolicyVectorStore.chunks: the chunk store
    index,        \* PolicyVectorStore.index: the vectors held by the FAISS index, in add order
    faiss,        \* behaviour of the installed faiss build the source leaves open
    hashSeed,     \* the interpreter's string-hash seed (fixes the iteration order of a set)
    llm_provider, \* PolicyRAGService.llm_provider
    out,          \* what the last call returned or raised
    disk,         \* the index directory: faiss.index, chunks.pkl, config.json
    snapshot_of,  \* history: the store state each file of the directory was written from
    save_pc,      \* how far the running save_index has got (0: none is running)
    saves,        \* history: the number of save_index calls begun
    app,          \* the server module that runs: api_server or enhanced_main
    server,       \* the server process: starting, up or crashed
    vector_store, \* the global vector_store of the server module
    rag_service,  \* the global rag_service of the server module; its store is chunks, index
    items,        \* the data file DATA_DIR/items.jsonl
    tasks,        \* the run_ingestion background tasks, one per accepted POST /api/ingest
    chunker,      \* a call of _chunk_text: its arguments and what it returned
    rate_limit_storage, \* enhanced_main: per client key, the count and the reset time
    rate_limit_lock,    \* enhanced_main: the middleware call that holds the lock, or None
    now,                \* the clock time.time() reads
    calls,              \* the calls of the rate-limiting middleware that are under way
    passed,             \* history: per client key, the requests passed on since its reset
    documents_cache,    \* api_server_simple: the global documents_cache
    documents_pkl       \* api_server_simple: the file VECTORS_DIR/documents.pkl

storeVars == <<chunks, index, faiss, hashSeed, llm_provider>>
diskVars == <<disk, snapshot_of, save_pc, saves>>
serverVars == <<app, server, vector_store, rag_service, items, tasks>>
limiterVars == <<rate_limit_storage, rate_limit_lock, now, calls, passed>>
simpleVars == <<documents_cache, documents_pkl>>
vars == <<chunks, index, faiss, hashSeed, llm_provider, out, disk, snapshot_of, save_pc, saves,
          app, server, vector_store, rag_service, items, tasks, chunker, limiterVars, simpleVars>>

(***************************************************************************)
(* Bounds of the model                                                     *)
(***************************************************************************)
MaxChunks == 4
MaxK == 2
MaxMarkers == 2

None == "None"

(***************************************************************************)
(* Generic helpers                                                         *)
(***************************************************************************)
Min(a, b) == IF a <= b THEN a ELSE b

RECURSIVE SeqsUpTo(_, _)
SeqsUpTo(S, n) ==
    IF n = 0 THEN {<<>>}
    ELSE LET shorter == SeqsUpTo(S, n - 1)
         IN  shorter \cup {Append(s, x) : s \in {t \in shorter : Len(t) = n - 1}, x \in S}

(***************************************************************************)
(* Text: str.strip, ' '.join(filter(None, parts)), re.split                *)
(***************************************************************************)
IsTerminator(c) == c \in {".", "!", "?"}
IsSpace(c) == c \in {" ", "\n", "\t"}

RECURSIVE LStrip(_)
LStrip(t) == IF t # <<>> /\ IsSpace(Head(t)) THEN LStrip(Tail(t)) ELSE t

RECURSIVE RStrip(_)
RStrip(t) ==
    IF t # <<>> /\ IsSpace(t[Len(t)]) THEN RStrip(SubSeq(t, 1, Len(t) - 1)) ELSE t

Strip(t) == RStrip(LStrip(t))

RECURSIVE JoinParts(_)
JoinParts(parts) ==
    IF parts = <<>> THEN <<>>
    ELSE IF Head(parts) = <<>> THEN JoinParts(Tail(parts))
    ELSE LET rest == JoinParts(Tail(parts))
         IN  IF rest = <<>> THEN Head(parts) ELSE Head(parts) \o <<" ">> \o rest

\* first position >= i of t that does not hold a terminator (Len(t)+1 if none)
RECURSIVE TerminatorRunEnd(_, _)
TerminatorRunEnd(t, i) ==
    IF i <= Len(t) /\ IsTerminator(t[i]) THEN TerminatorRunEnd(t, i + 1) ELSE i

RECURSIVE SpaceRunEnd(_, _)
SpaceRunEnd(t, i) ==
    IF i <= Len(t) /\ IsSpace(t[i]) THEN SpaceRunEnd(t, i + 1) ELSE i

\* the position after a match of [.!?]+\s+ starting at i, 0 when there is none
MatchEnd(t, i) ==
    IF i <= Len(t) /\ IsTerminator(t[i])
    THEN LET j == TerminatorRunEnd(t, i)
         IN  IF j <= Len(t) /\ IsSpace(t[j]) THEN SpaceRunEnd(t, j) ELSE 0
    ELSE 0

\* re.split(r'[.!?]+\s+', t), scanning from i with the current piece starting at start
RECURSIVE SplitFrom(_, _, _)
SplitFrom(t, i, start) ==
    IF i > Len(t) THEN <<SubSeq(t, start, Len(t))>>
    ELSE LET e == MatchEnd(t, i)
         IN  IF e # 0 THEN <<SubSeq(t, start, i - 1)>> \o SplitFrom(t, e, e)
             ELSE SplitFrom(t, i + 1, start)

SplitSentences(t) == SplitFrom(t, 1, 1)

(***************************************************************************)
(* PolicyVectorStore._chunk_text                                           *)
(***************************************************************************)
RECURSIVE Accumulate(_, _, _, _)
Accumulate(sentences, max_length, current_chunk, acc) ==
    IF sentences = <<>>
    THEN IF current_chunk # <<>> THEN Append(acc, Strip(current_chunk)) ELSE acc
    ELSE LET sentence == Head(sentences)
         IN  IF Len(current_chunk \o sentence) <= max_length
             THEN Accumulate(Tail(sentences), max_length,
                             current_chunk \o sentence \o <<".", " ">>, acc)
             ELSE Accumulate(Tail(sentences), max_length,
                             sentence \o <<".", " ">>,
                             IF current_chunk # <<>>
                             THEN Append(acc, Strip(current_chunk)) ELSE acc)

RECURSIVE Slices(_, _)
Slices(t, max_length) ==
    IF t = <<>> THEN <<>>
    ELSE IF Len(t) <= max_length THEN <<t>>
    ELSE <<SubSeq(t, 1, max_length)>> \o Slices(SubSeq(t, max_length + 1, Len(t)), max_length)

ChunkText(text, max_length) ==
    IF text = <<>> \/ Len(text) <= max_length
    THEN IF text # <<>> THEN <<text>> ELSE <<>>
    ELSE LET sentence_chunks == Accumulate(SplitSentences(text), max_length, <<>>, <<>>)
         IN  IF sentence_chunks = <<>> /\ text # <<>>
             THEN Slices(text, max_length)
             ELSE sentence_chunks

(***************************************************************************)
(* The embedding model: SentenceTransformer.encode(normalize_embeddings)   *)
(* A deterministic map from a text to a vector of norm Radius.             *)
(***************************************************************************)
Radius == 5

EmbedOfKey(w) ==
    CASE w \in {"a", "hydrogen", "energy"} -> <<5, 0>>
      [] w \in {"b", "fuel", "tax", "greenhouse"} -> <<4, 3>>
      [] w \in {"c", "clean", "climate"} -> <<3, 4>>
      [] w \in {"d", "h2", "emissions"} -> <<0, 5>>
      [] OTHER -> <<3, 4>>

Embed(text) == IF text = <<>> THEN <<0, Radius>> ELSE EmbedOfKey(Head(text))

InnerProduct(u, v) == u[1] * v[1] + u[2] * v[2]

(***************************************************************************)
(* Input: the lines of a JSONL file.  A line is blank, malformed JSON, or  *)
(* a document record; fields is the set of keys the record has.            *)
(* published is the age class of the timestamp as _estimate_confidence     *)
(* reads it: None, "recent" (< 30 days), "mid" (< 90 days), "old", or      *)
(* "bad" (not an ISO timestamp).                                           *)
(***************************************************************************)
RequiredFields == {"id", "source", "doc_type", "title", "url"}

DocLine(id, source, doc_type, title, summary, body_text, published, fields) ==
    [kind |-> "doc", fields |-> fields, id |-> id, source |-> source,
     doc_type |-> doc_type, title |-> title, summary |-> summary,
     body_text |-> body_text, published |-> published]

LineA == DocLine("d1", "EUR-Lex", "legal", <<"a">>, <<>>, <<>>, "recent", RequiredFields)
LineB == DocLine("d2", "EURACTIV", "news", <<"b">>, <<>>, <<"c", ".", " ", "d">>, "old",
                 RequiredFields)
LineA2 == DocLine("d1", "EURACTIV", "legal", <<"a">>, <<>>, <<>>, None, RequiredFields)
LineC == DocLine("d4", "EP Open Data", "procedure", <<"c">>, <<>>, <<>>, "bad", RequiredFields)
LineEmpty == DocLine("d3", "EUR-Lex", "legal", <<>>, <<" ">>, <<>>, None, RequiredFields)
LineNoId == DocLine("", "EP Open Data", "procedure", <<"c">>, <<>>, <<>>, "mid",
                    RequiredFields \ {"id"})
LineMalformed == [DocLine("", "", "", <<>>, <<>>, <<>>, None, {}) EXCEPT !.kind = "malformed"]
LineBlank == [DocLine("", "", "", <<>>, <<>>, <<>>, None, {}) EXCEPT !.kind = "blank"]

File(lines) == [exists |-> TRUE, lines |-> lines]
MissingFile == [exists |-> FALSE, lines |-> <<>>]

InputFiles ==
    {MissingFile}
    \cup {File(<<l>>) : l \in {LineA, LineB, LineA2, LineEmpty, LineNoId,
                               LineMalformed, LineBlank}}
    \cup {File(ls) : ls \in {<<LineA, LineMalformed>>, <<LineA, LineNoId>>,
                             <<LineNoId, LineA>>, <<LineA, LineEmpty>>,
                             <<LineBlank, LineA2>>, <<LineA, LineA2>>,
                             <<LineEmpty, LineEmpty>>}}

(***************************************************************************)
(* PolicyVectorStore.add_documents                                         *)
(***************************************************************************)
IngestMaxLength == 4   \* max_length=400 of the source, at the scale of the model's texts
BatchSize == 2         \* batch_size = 32 of the source, at the scale of the model

\* doc.get(key, '') for the text fields
GetText(doc, key) == IF key \in doc.fields \cup {"summary", "body_text"} THEN doc[key] ELSE <<>>

SearchableText(doc) ==
    JoinParts(<<GetText(doc, "title"), GetText(doc, "summary"), GetText(doc, "body_text")>>)

\* the DocumentChunk of piece i (zero-based) of doc
DocumentChunk(doc, i, chunk_text) ==
    [chunk_id |-> <<doc.id, i>>, doc_id |-> doc.id, source |-> doc.source,
     doc_type |-> doc.doc_type, content |-> chunk_text, published |-> doc.published,
     chunk_index |-> i]

DocChunks(doc, pieces) == [i \in 1..Len(pieces) |-> DocumentChunk(doc, i - 1, pieces[i])]

\* the loop over documents: what it appended to self.chunks, and whether it raised KeyError
RECURSIVE ProcessDocuments(_, _)
ProcessDocuments(documents, appended) ==
    IF documents = <<>> THEN [raised |-> FALSE, appended |-> appended]
    ELSE LET doc == Head(documents)
             searchable_text == SearchableText(doc)
         IN  IF Strip(searchable_text) = <<>>
             THEN ProcessDocuments(Tail(documents), appended)
             ELSE LET pieces == ChunkText(searchable_text, IngestMaxLength)
                  IN  IF pieces # <<>> /\ ~(RequiredFields \subseteq doc.fields)
                      THEN [raised |-> TRUE, appended |-> appended]
                      ELSE ProcessDocuments(Tail(documents),
                                            appended \o DocChunks(doc, pieces))

\* model.encode over slices of batch_size texts, results concatenated in order
RECURSIVE EmbedBatches(_)
EmbedBatches(all_texts) ==
    IF all_texts = <<>> THEN <<>>
    ELSE LET n == Min(BatchSize, Len(all_texts))
             batch == SubSeq(all_texts, 1, n)
         IN  [i \in 1..n |-> Embed(batch[i])]
             \o EmbedBatches(SubSeq(all_texts, n + 1, Len(all_texts)))

NonBlank(lines) == SelectSeq(lines, LAMBDA l : l.kind # "blank")

NoOut ==
    [op |-> "none", status |-> "none", error |-> "", file |-> MissingFile, count |-> 0,
     q |-> <<>>, k |-> 0, sf |-> None, df |-> None, res |-> <<>>, terms |-> <<>>,
     calls |-> <<>>, pool |-> <<>>, llm |-> "", answer |-> [kind |-> "", markers |-> <<>>],
     conf |-> [num |-> 0, den |-> 1]]

IngestRaised(file, error) ==
    [NoOut EXCEPT !.op = "ingest", !.status = "raised", !.error = error, !.file = file]

\* the store after add_documents(file) and what the call returned or raised;
\* encode_ok: whether the embedding model answers
AddDocumentsResult(cs, vectors, file, encode_ok) ==
    IF ~file.exists
    THEN [chunks |-> cs, index |-> vectors, out |-> IngestRaised(file, "open")]
    ELSE IF \E i \in 1..Len(file.lines) : file.lines[i].kind = "malformed"
    THEN [chunks |-> cs, index |-> vectors, out |-> IngestRaised(file, "json")]
    ELSE LET p == ProcessDocuments(NonBlank(file.lines), <<>>)
             all_texts == [i \in 1..Len(p.appended) |-> p.appended[i].content]
         IN  IF p.raised
             THEN [chunks |-> cs \o p.appended, index |-> vectors,
                   out |-> IngestRaised(file, "record")]
             ELSE IF all_texts = <<>>
             THEN [chunks |-> cs, index |-> vectors, out |-> IngestRaised(file, "index_add")]
             ELSE IF ~encode_ok
             THEN [chunks |-> cs \o p.appended, index |-> vectors,
                   out |-> IngestRaised(file, "encode")]
             ELSE [chunks |-> cs \o p.appended,
                   index |-> vectors \o EmbedBatches(all_texts),
                   out |-> [NoOut EXCEPT !.op = "ingest", !.status = "ok", !.file = file,
                                         !.count = Len(all_texts)]]

AddDocuments(file, encode_ok) ==
    LET r == AddDocumentsResult(chunks, index, file, encode_ok)
    IN  /\ Len(r.chunks) <= MaxChunks
        /\ chunks' = r.chunks
        /\ index' = r.index
        /\ out' = r.out
        /\ UNCHANGED <<faiss, hashSeed, llm_provider, diskVars, serverVars, chunker, limiterVars, simpleVars>>

(***************************************************************************)
(* faiss.IndexFlatIP.search: the n best inner products, best first, padded *)
(* with label -1.  The order of equal scores and the answer to n = 0 are   *)
(* not fixed by the source: they are those of the installed build.         *)
(***************************************************************************)
FaissBuilds == {[tie |-> "low_id_first", zero_k |-> "assert"],
                [tie |-> "high_id_first", zero_k |-> "empty"]}

CandidateFactor == 3

FaissSearch(vectors, qv, n) ==
    LET N == Len(vectors)
        Score(i) == InnerProduct(vectors[i], qv)
        Before(i, j) ==
            \/ Score(i) > Score(j)
            \/ /\ Score(i) = Score(j)
               /\ IF faiss.tie = "low_id_first" THEN i < j ELSE i > j
        Rank(i) == 1 + Cardinality({j \in 1..N : Before(j, i)})
    IN  [p \in 1..n |->
            IF p <= N
            THEN LET i == CHOOSE i \in 1..N : Rank(i) = p
                 IN  [score |-> Score(i), label |-> i - 1]
            ELSE [score |-> -(Radius * Radius) - 1, label |-> -1]]

(***************************************************************************)
(* PolicyVectorStore.search                                                *)
(***************************************************************************)
FilterGiven(f) == f # None /\ f # ""

\* SearchLoop without the break at k results
RECURSIVE SearchLoopNoBreak(_, _, _, _, _, _, _)
SearchLoopNoBreak(cs, candidates, i, k, source_filter, doc_type_filter, results) ==
    IF i > Len(candidates) THEN [status |-> "ok", res |-> results]
    ELSE LET c == candidates[i]
             chunk == cs[c.label + 1]
         IN  IF c.label = -1
             THEN SearchLoopNoBreak(cs, candidates, i + 1, k, source_filter,
                                    doc_type_filter, results)
             ELSE IF c.label + 1 > Len(cs)
             THEN [status |-> "raised", res |-> <<>>]
             ELSE IF \/ FilterGiven(source_filter) /\ chunk.source # source_filter
                     \/ FilterGiven(doc_type_filter) /\ chunk.doc_type # doc_type_filter
             THEN SearchLoopNoBreak(cs, candidates, i + 1, k, source_filter,
                                    doc_type_filter, results)
             ELSE SearchLoopNoBreak(cs, candidates, i + 1, k, source_filter, doc_type_filter,
                                    Append(results, [chunk |-> chunk, score |-> c.score,
                                                     pos |-> c.label + 1]))

\* SearchLoop that applies a filter only when both filters are given
RECURSIVE SearchLoopLooseFilter(_, _, _, _, _, _, _)
SearchLoopLooseFilter(cs, candidates, i, k, source_filter, doc_type_filter, results) ==
    IF i > Len(candidates) THEN [status |-> "ok", res |-> results]
    ELSE LET c == candidates[i]
             chunk == cs[c.label + 1]
         IN  IF c.label = -1
             THEN SearchLoopLooseFilter(cs, candidates, i + 1, k, source_filter,
                                        doc_type_filter, results)
             ELSE IF c.label + 1 > Len(cs)
             THEN [status |-> "raised", res |-> <<>>]
             ELSE IF /\ FilterGiven(source_filter) /\ chunk.source # source_filter
                     /\ FilterGiven(doc_type_filter) /\ chunk.doc_type # doc_type_filter
             THEN SearchLoopLooseFilter(cs, candidates, i + 1, k, source_filter,
                                        doc_type_filter, results)
             ELSE LET r == Append(results, [chunk |-> chunk, score |-> c.score,
                                            pos |-> c.label + 1])
                  IN  IF Len(r) >= k THEN [status |-> "ok", res |-> r]
                      ELSE SearchLoopLooseFilter(cs, candidates, i + 1, k, source_filter,
                                                 doc_type_filter, r)

\* a result is the chunk object (the record and pos, its place in self.chunks) and its score
RECURSIVE SearchLoop(_, _, _, _, _, _, _)
SearchLoop(cs, candidates, i, k, source_filter, doc_type_filter, results) ==
    IF i > Len(candidates) THEN [status |-> "ok", res |-> results]
    ELSE LET c == candidates[i]
         IN  IF c.label = -1
             THEN SearchLoop(cs, candidates, i + 1, k, source_filter, doc_type_filter, results)
             ELSE IF c.label + 1 > Len(cs)
             THEN [status |-> "raised", res |-> <<>>]
             ELSE LET chunk == cs[c.label + 1]
                  IN  IF \/ FilterGiven(source_filter) /\ chunk.source # source_filter
                         \/ FilterGiven(doc_type_filter) /\ chunk.doc_type # doc_type_filter
                      THEN SearchLoop(cs, candidates, i + 1, k, source_filter,
                                      doc_type_filter, results)
                      ELSE LET r == Append(results, [chunk |-> chunk, score |-> c.score,
                                                     pos |-> c.label + 1])
                           IN  IF Len(r) >= k THEN [status |-> "ok", res |-> r]
                               ELSE SearchLoop(cs, candidates, i + 1, k, source_filter,
                                               doc_type_filter, r)

\* Search that asks the index for every vector it holds
SearchWholeIndex(cs, vectors, query, k, source_filter, doc_type_filter) ==
    IF k * CandidateFactor = 0
    THEN [status |-> IF faiss.zero_k = "assert" THEN "raised" ELSE "ok", res |-> <<>>]
    ELSE SearchLoop(cs, FaissSearch(vectors, Embed(query), Len(vectors)), 1, k,
                    source_filter, doc_type_filter, <<>>)

Search(cs, vectors, query, k, source_filter, doc_type_filter) ==
    IF k * CandidateFactor = 0
    THEN [status |-> IF faiss.zero_k = "assert" THEN "raised" ELSE "ok", res |-> <<>>]
    ELSE SearchLoop(cs, FaissSearch(vectors, Embed(query), k * CandidateFactor), 1, k,
                    source_filter, doc_type_filter, <<>>)

Queries == {<<"hydrogen">>, <<"hydrogen", "economy">>, <<"tax">>, <<"emissions">>}
SearchQueries == {<<"hydrogen">>, <<"emissions">>}
SourceFilters == {None, "EURACTIV"}
DocTypeFilters == {None, "legal"}

SearchCall(query, k, source_filter, doc_type_filter) ==
    LET r == Search(chunks, index, query, k, source_filter, doc_type_filter)
    IN  /\ out' = [NoOut EXCEPT !.op = "search", !.status = r.status, !.q = query, !.k = k,
                                !.sf = source_filter, !.df = doc_type_filter, !.res = r.res]
        /\ UNCHANGED <<storeVars, diskVars, serverVars, chunker, limiterVars, simpleVars>>

(***************************************************************************)
(* The parts of the state a specification does not use: no index           *)
(* directory, no server module, no chunker call                            *)
(***************************************************************************)
\* an index directory that was never created
\* files: the names present in it; truncated: those opened for writing and not yet
\* written; the content of an absent or truncated file is not looked at
NoDir ==
    [exists |-> FALSE, files |-> {}, truncated |-> {}, faiss_index |-> [d |-> 0, ntotal |-> 0, codes |-> <<>>],
     chunks_pkl |-> <<>>, config |-> [dimension |-> 0, num_chunks |-> 0]]

NoState == [chunks |-> <<>>, index |-> <<>>]

NoSnapshot == [faiss_index |-> NoState, chunks_pkl |-> NoState, config |-> NoState]

\* the global vector_store while it is None
NoStore == [none |-> TRUE, chunks |-> <<>>, index |-> <<>>]

\* no call of _chunk_text was made
NoChunkerCall == [called |-> FALSE, text |-> <<>>, max_length |-> 0, chunks |-> <<>>]

NoDirectory == disk = NoDir /\ snapshot_of = NoSnapshot /\ save_pc = 0 /\ saves = 0

\* the POST /api/ingest requests whose background tasks may overlap
Requests == {"r1", "r2"}

\* the task of a request has returned
\* returncode: that of the subprocess of the task that ended last (0 when none has)
Done == [pc |-> "done", n |-> 0, chunks |-> <<>>, index |-> <<>>, returncode |-> 0]

\* a request that was not made yet
\* n: the statement of save_index the task's indexer runs next
NoTask == [pc |-> "idle", n |-> 0, chunks |-> <<>>, index |-> <<>>, returncode |-> 0]

\* the returncode of a subprocess that subprocess.run killed at its timeout
Killed == -9

NoServer ==
    /\ app = None
    /\ server = None
    /\ vector_store = NoStore
    /\ rag_service = None
    /\ items = MissingFile
    /\ tasks = [r \in Requests |-> NoTask]

\* the requests whose middleware calls may overlap, their clients and their paths
Callers == {"c1", "c2"}
Clients == {"ip1"}
Endpoints == {"/api/ingest", "/api/documents"}

\* f"{client_ip}:{endpoint}"
ClientKey(client_ip, endpoint) == <<client_ip, endpoint>>

ClientKeys == {ClientKey(client_ip, endpoint) : client_ip \in Clients, endpoint \in Endpoints}

\* what the defaultdict holds for a key that was never assigned
DefaultEntry == [count |-> 0, reset_time |-> 0]

\* a middleware call that is not under way
\* now: the time the call read; seen: the entry of its key when it took the lock
NoCall ==
    [pc |-> "idle", client_ip |-> "", endpoint |-> "", now |-> 0, seen |-> DefaultEntry,
     status |-> 0]

NoLimiter ==
    /\ rate_limit_storage = [key \in ClientKeys |-> DefaultEntry]
    /\ rate_limit_lock = None
    /\ now = 1
    /\ calls = [c \in Callers |-> NoCall]
    /\ passed = [key \in ClientKeys |-> 0]

\* documents.pkl: absent, unreadable, or the pickle of a list of documents
NoPickle == [exists |-> FALSE, corrupt |-> FALSE, docs |-> <<>>]

NoSimple == documents_cache = <<>> /\ documents_pkl = NoPickle

(***************************************************************************)
(* The vector store: construction, then ingests and searches               *)
(***************************************************************************)
Init ==
    /\ chunks = <<>>
    /\ index = <<>>
    /\ faiss \in FaissBuilds
    /\ hashSeed = 0
    /\ llm_provider = "claude"
    /\ out = NoOut
    /\ NoDirectory
    /\ NoServer
    /\ chunker = NoChunkerCall
    /\ NoLimiter
    /\ NoSimple

Ingest == \E file \in InputFiles, encode_ok \in BOOLEAN : AddDocuments(file, encode_ok)

SearchStep ==
    \E query \in SearchQueries, k \in 1..MaxK, source_filter \in SourceFilters,
       doc_type_filter \in DocTypeFilters :
        SearchCall(query, k, source_filter, doc_type_filter)

Next == Ingest \/ SearchStep

Spec == Init /\ [][Next]_vars

(***************************************************************************)
(* PolicyRAGService._expand_query.  x in query_lower is read on whole      *)
(* words: a phrase is in the query when its words occur there in a row.    *)
(***************************************************************************)
Contains(query, phrase) ==
    \E i \in 0..(Len(query) - Len(phrase)) : SubSeq(query, i + 1, i + Len(phrase)) = phrase

\* config['eurovoc_map'] as save_index wrote it, in dict order
EurovocConcepts ==
    << [concept |-> <<"energy">>,
        terms |-> << <<"renewable", "energy">>, <<"energy", "policy">>,
                     <<"energy", "security">>, <<"energy", "transition">> >>],
       [concept |-> <<"transport">>,
        terms |-> << <<"sustainable", "transport">>, <<"electric", "vehicles">>,
                     <<"public", "transport">>, <<"mobility">> >>],
       [concept |-> <<"hydrogen">>,
        terms |-> << <<"hydrogen", "economy">>, <<"fuel", "cells">>,
                     <<"clean", "energy">>, <<"energy", "storage">> >>],
       [concept |-> <<"climate">>,
        terms |-> << <<"climate", "change">>, <<"greenhouse", "gases">>,
                     <<"carbon", "neutrality">>, <<"emissions">> >>],
       [concept |-> <<"environment">>,
        terms |-> << <<"environmental", "policy">>, <<"pollution", "control">>,
                     <<"biodiversity">>, <<"circular", "economy">> >>] >>

Synonyms ==
    << [key |-> <<"regulation">>,
        values |-> << <<"directive">>, <<"legislation">>, <<"law">>, <<"policy">> >>],
       [key |-> <<"hydrogen">>,
        values |-> << <<"H2">>, <<"fuel", "cell">>, <<"clean", "fuel">> >>],
       [key |-> <<"electric">>,
        values |-> << <<"EV">>, <<"battery">>, <<"electric", "vehicle">> >>],
       [key |-> <<"transport">>,
        values |-> << <<"mobility">>, <<"transportation">>, <<"logistics">> >>],
       [key |-> <<"climate">>,
        values |-> << <<"environmental">>, <<"carbon">>, <<"emissions">>, <<"green">> >>],
       [key |-> <<"energy">>,
        values |-> << <<"power">>, <<"electricity">>, <<"renewable">> >>] >>

Take(s, n) == SubSeq(s, 1, Min(n, Len(s)))

\* what the inner loop over terms appends for the terms from position i on
RECURSIVE TermHits(_, _, _)
TermHits(query, entry, i) ==
    IF i > Len(entry.terms) THEN <<>>
    ELSE LET term == entry.terms[i]
             hit == IF Contains(query, term)
                    THEN <<entry.concept>>
                         \o Take(SelectSeq(entry.terms, LAMBDA t : t # term), 2)
                    ELSE <<>>
         IN  hit \o TermHits(query, entry, i + 1)

RECURSIVE ConceptExpansions(_, _)
ConceptExpansions(query, i) ==
    IF i > Len(EurovocConcepts) THEN <<>>
    ELSE LET entry == EurovocConcepts[i]
         IN  (IF Contains(query, entry.concept) THEN Take(entry.terms, 3) ELSE <<>>)
             \o TermHits(query, entry, 1)
             \o ConceptExpansions(query, i + 1)

RECURSIVE SynonymExpansions(_, _)
SynonymExpansions(query, i) ==
    IF i > Len(Synonyms) THEN <<>>
    ELSE (IF Contains(query, Synonyms[i].key) THEN Synonyms[i].values ELSE <<>>)
         \o SynonymExpansions(query, i + 1)

\* the list expansions before the final list(set(...))
Expansions(query) ==
    <<query>> \o ConceptExpansions(query, 1) \o SynonymExpansions(query, 1)

\* the elements of xs once each, in order of first occurrence
RECURSIVE FirstSeen(_, _)
FirstSeen(xs, seen) ==
    IF xs = <<>> THEN <<>>
    ELSE IF Head(xs) \in seen THEN FirstSeen(Tail(xs), seen)
    ELSE <<Head(xs)>> \o FirstSeen(Tail(xs), seen \cup {Head(xs)})

Reverse(s) == [i \in 1..Len(s) |-> s[Len(s) + 1 - i]]

\* list(set(xs)): the elements once each, in the order the hash seed of the process
\* gives them.  Three seeds stand for the orders a process can produce.
HashSeeds == {0, 1, 2}

ListOfSet(xs, seed) ==
    LET once == FirstSeen(xs, {})
    IN  CASE seed = 0 -> once
          [] seed = 1 -> Reverse(once)
          [] OTHER -> IF once = <<>> THEN once ELSE Tail(once) \o <<Head(once)>>

ExpandQuery(query) == ListOfSet(Expansions(query), hashSeed)

(***************************************************************************)
(* PolicyRAGService._retrieve_documents                                    *)
(***************************************************************************)
SecondaryTerms == 3

\* sorted(results, key=lambda x: x[1], reverse=True): stable
SortedByScore(results) ==
    LET n == Len(results)
        Place(i) == 1 + Cardinality({j \in 1..n :
                        \/ results[j].score > results[i].score
                        \/ results[j].score = results[i].score /\ j < i})
    IN  [p \in 1..n |-> results[CHOOSE i \in 1..n : Place(i) = p]]

RECURSIVE UniqueByChunkId(_, _)
UniqueByChunkId(results, seen_chunks) ==
    IF results = <<>> THEN <<>>
    ELSE IF Head(results).chunk.chunk_id \in seen_chunks
    THEN UniqueByChunkId(Tail(results), seen_chunks)
    ELSE <<Head(results)>>
         \o UniqueByChunkId(Tail(results), seen_chunks \cup {Head(results).chunk.chunk_id})

\* the arguments of one call of vector_store.search
SearchRequest(query, k, source_filter, doc_type_filter) ==
    [q |-> query, k |-> k, sf |-> source_filter, df |-> doc_type_filter]

\* the secondary searches for terms[i..], in order; raised when one of them raises;
\* calls: the searches that were issued, the one that raised being the last
RECURSIVE SecondarySearches(_, _, _, _, _)
SecondarySearches(terms, i, k, source_filter, doc_type_filter) ==
    IF i > Len(terms) THEN [status |-> "ok", res |-> <<>>, calls |-> <<>>]
    ELSE LET call == SearchRequest(terms[i], k \div 2, source_filter, doc_type_filter)
             r == Search(chunks, index, terms[i], k \div 2, source_filter, doc_type_filter)
             rest == SecondarySearches(terms, i + 1, k, source_filter, doc_type_filter)
         IN  IF r.status # "ok" THEN [status |-> "raised", res |-> <<>>, calls |-> <<call>>]
             ELSE IF rest.status # "ok" THEN [rest EXCEPT !.calls = <<call>> \o @]
             ELSE [status |-> "ok", res |-> r.res \o rest.res,
                   calls |-> <<call>> \o rest.calls]

\* Rerank that deduplicates the pool before sorting it
RerankDedupFirst(results, k) == Take(SortedByScore(UniqueByChunkId(results, {})), k)

\* the rerank of the pooled results: sort, deduplicate, keep k
Rerank(results, k) == Take(UniqueByChunkId(SortedByScore(results), {}), k)

RetrieveDocuments(query, k, source_filter, doc_type_filter) ==
    LET expanded_terms == ExpandQuery(query)
        primary == Search(chunks, index, query, k, source_filter, doc_type_filter)
        secondary == SecondarySearches(SubSeq(expanded_terms, 2,
                                              Min(1 + SecondaryTerms, Len(expanded_terms))),
                                       1, k, source_filter, doc_type_filter)
        first == <<SearchRequest(query, k, source_filter, doc_type_filter)>>
    IN  IF primary.status # "ok"
        THEN [status |-> "raised", calls |-> first, pool |-> <<>>, res |-> <<>>]
        ELSE IF secondary.status # "ok"
        THEN [status |-> "raised", calls |-> first \o secondary.calls, pool |-> <<>>,
              res |-> <<>>]
        ELSE [status |-> "ok", calls |-> first \o secondary.calls,
              pool |-> primary.res \o secondary.res,
              res |-> Rerank(primary.res \o secondary.res, k)]

(***************************************************************************)
(* PolicyRAGService._call_llm, _estimate_confidence, _generate_answer      *)
(* An answer is its kind and the numbers of the [n] markers in it, in      *)
(* order of occurrence.  A confidence is the exact fraction num / den.     *)
(***************************************************************************)
LlmOutcomes == {"ok", "exception", "non200", "malformed"}
LlmFailures == LlmOutcomes \ {"ok"}
LlmTexts == SeqsUpTo({1, 2}, MaxMarkers)

CallLlm(outcome, text) ==
    IF llm_provider = "claude"
    THEN CASE outcome = "ok" -> [kind |-> "text", markers |-> text]
           [] outcome = "non200" -> [kind |-> "api_error", markers |-> <<>>]
           [] OTHER -> [kind |-> "llm_error", markers |-> <<>>]
    ELSE [kind |-> "template", markers |-> <<1, 2, 3>>]

ContextSources == 6

\* the score of one source, in hundredths
SourceScore(chunk) ==
    LET by_source == CASE chunk.source = "EUR-Lex" -> 30
                       [] chunk.source = "EP Open Data" -> 25
                       [] chunk.source = "EURACTIV" -> 15
                       [] OTHER -> 0
        by_age == CASE chunk.published = "recent" -> 10
                    [] chunk.published = "mid" -> 5
                    [] OTHER -> 0
    IN  Min(50 + by_source + by_age, 100)

RECURSIVE SumScores(_)
SumScores(sources) ==
    IF sources = <<>> THEN 0 ELSE SourceScore(Head(sources)) + SumScores(Tail(sources))

\* ClampConfidence without the clamp
NoClampConfidence(c) == c

\* min(confidence, 1.0)
ClampConfidence(c) == IF c.num > c.den THEN [num |-> c.den, den |-> c.den] ELSE c

\* citation_score * 0.4 + avg_source_score * 0.6 as a fraction
EstimateConfidence(answer, sources) ==
    LET citations == Len(answer.markers)
        max_citations == Min(Len(sources), ContextSources)
        n == Len(sources)
    IN  IF n = 0
        THEN ClampConfidence([num |-> 3, den |-> 10])
        ELSE ClampConfidence([num |-> 400 * citations * n + 6 * SumScores(sources) * max_citations,
                              den |-> 1000 * max_citations * n])

GenerateAnswer(sources, outcome, text) ==
    LET answer == CallLlm(outcome, text)
    IN  [answer |-> answer, confidence |-> EstimateConfidence(answer, sources)]

(***************************************************************************)
(* PolicyRAGService: the calls                                             *)
(***************************************************************************)
RagSourceFilters == {None, "EURACTIV"}

ExpandCall(query) ==
    /\ out' = [NoOut EXCEPT !.op = "expand", !.status = "ok", !.q = query,
                            !.terms = ExpandQuery(query)]
    /\ UNCHANGED <<storeVars, diskVars, serverVars, chunker, limiterVars, simpleVars>>

RetrieveCall(query, k, source_filter, doc_type_filter) ==
    LET r == RetrieveDocuments(query, k, source_filter, doc_type_filter)
    IN  /\ out' = [NoOut EXCEPT !.op = "retrieve", !.status = r.status, !.q = query,
                                !.k = k, !.sf = source_filter, !.df = doc_type_filter,
                                !.calls = r.calls, !.pool = r.pool, !.res = r.res]
        /\ UNCHANGED <<storeVars, diskVars, serverVars, chunker, limiterVars, simpleVars>>

\* the mutant: query() empties the chunk store
QueryCallForgetful(query, source_filter, doc_type_filter, k, outcome, text) ==
    /\ out' = [NoOut EXCEPT !.op = "query", !.status = "ok", !.q = query, !.k = k,
                            !.sf = source_filter, !.df = doc_type_filter]
    /\ chunks' = <<>>
    /\ UNCHANGED <<index, faiss, hashSeed, llm_provider, diskVars, serverVars, chunker, limiterVars, simpleVars>>

\* query(): outcome and text are what the text-generation call does this time
QueryCall(query, source_filter, doc_type_filter, k, outcome, text) ==
    LET expanded_terms == ExpandQuery(query)
        r == RetrieveDocuments(query, k, source_filter, doc_type_filter)
        sources == [i \in 1..Len(r.res) |-> r.res[i].chunk]
        g == GenerateAnswer(sources, outcome, text)
    IN  /\ out' = IF r.status # "ok"
                  THEN [NoOut EXCEPT !.op = "query", !.status = "raised", !.q = query,
                                     !.k = k, !.sf = source_filter, !.df = doc_type_filter]
                  ELSE [NoOut EXCEPT !.op = "query", !.status = "ok", !.q = query, !.k = k,
                                     !.sf = source_filter, !.df = doc_type_filter,
                                     !.terms = expanded_terms, !.res = r.res,
                                     !.llm = IF llm_provider = "claude" THEN outcome
                                             ELSE "template",
                                     !.answer = g.answer, !.conf = g.confidence]
        /\ UNCHANGED <<storeVars, diskVars, serverVars, chunker, limiterVars, simpleVars>>

\* the index directories a service is started on: each written by vector_indexer.main,
\* one add_documents on a new store and save_index
IndexedFiles ==
    {File(ls) : ls \in {<<LineA>>, <<LineA, LineB>>, <<LineA, LineA2>>, <<LineC, LineA>>,
                        <<LineB, LineC>>}}

\* PolicyRAGService.__init__: a new store, load_index
InitRag ==
    /\ \E file \in IndexedFiles :
        LET r == AddDocumentsResult(<<>>, <<>>, file, TRUE)
        IN  chunks = r.chunks /\ index = r.index
    /\ faiss \in FaissBuilds
    /\ hashSeed \in HashSeeds
    /\ llm_provider \in {"claude", "template"}
    /\ out = NoOut
    /\ NoDirectory
    /\ NoServer
    /\ chunker = NoChunkerCall
    /\ NoLimiter
    /\ NoSimple

\* The caller holds one result at a time: a call is made with no result at hand, except
\* that a retrieve may be repeated with the same arguments to compare the two results.
ExpandStep == \E query \in Queries : out = NoOut /\ ExpandCall(query)

RetrieveStep ==
    \E query \in Queries, k \in 1..MaxK, source_filter \in RagSourceFilters :
        /\ \/ out = NoOut
           \/ out.op = "retrieve" /\ out.q = query /\ out.k = k /\ out.sf = source_filter
        /\ RetrieveCall(query, k, source_filter, None)

QueryStep ==
    \E query \in Queries, k \in 1..MaxK, source_filter \in RagSourceFilters,
       outcome \in LlmOutcomes, text \in LlmTexts :
        /\ out = NoOut
        /\ (outcome # "ok" \/ llm_provider # "claude") => text = <<>>
        /\ QueryCall(query, source_filter, None, k, outcome, text)

\* the caller drops the result it holds
Forget ==
    /\ out # NoOut
    /\ out' = NoOut
    /\ UNCHANGED <<storeVars, diskVars, serverVars, chunker, limiterVars, simpleVars>>

\* the service process is started again on the same index directory
Restart ==
    /\ out.op \in {"none", "retrieve"}
    /\ hashSeed' \in HashSeeds
    /\ UNCHANGED <<chunks, index, faiss, llm_provider, out, diskVars, serverVars, chunker, limiterVars, simpleVars>>

NextRag == ExpandStep \/ RetrieveStep \/ QueryStep \/ Forget \/ Restart

SpecRag == InitRag /\ [][NextRag]_vars

(***************************************************************************)
(* PolicyVectorStore.save_index and load_index.  The index directory holds *)
(* three files, written one after the other and read one after the other.  *)
(***************************************************************************)
Dimension == 2

RECURSIVE Flatten(_)
Flatten(vectors) == IF vectors = <<>> THEN <<>> ELSE Head(vectors) \o Flatten(Tail(vectors))

\* faiss.write_index of an IndexFlatIP: its dimension, its size and the vectors row by row
WriteIndex(vectors) ==
    [d |-> Dimension, ntotal |-> Len(vectors), codes |-> Flatten(vectors)]

\* the mutant: the rows come back in reverse order
ReadIndexReversed(file) ==
    [i \in 1..file.ntotal |->
        [j \in 1..file.d |-> file.codes[(file.ntotal - i) * file.d + j]]]

\* faiss.read_index: row i is the i-th run of d numbers
ReadIndex(file) ==
    [i \in 1..file.ntotal |-> [j \in 1..file.d |-> file.codes[(i - 1) * file.d + j]]]

\* pickle.dump(self.chunks): the field values of each DocumentChunk, in declaration order
Pickle(cs) ==
    [i \in 1..Len(cs) |-> <<cs[i].chunk_id, cs[i].doc_id, cs[i].source, cs[i].doc_type,
                            cs[i].content, cs[i].published, cs[i].chunk_index>>]

Unpickle(file) ==
    [i \in 1..Len(file) |->
        [chunk_id |-> file[i][1], doc_id |-> file[i][2], source |-> file[i][3],
         doc_type |-> file[i][4], content |-> file[i][5], published |-> file[i][6],
         chunk_index |-> file[i][7]]]

SaveConfig(cs) == [dimension |-> Dimension, num_chunks |-> Len(cs)]

\* opening a file for writing creates it or empties it
OpenForWriting(d, name) ==
    [d EXCEPT !.files = @ \cup {name}, !.truncated = @ \cup {name},
              !.faiss_index = IF name = "faiss.index" THEN NoDir.faiss_index ELSE @,
              !.chunks_pkl = IF name = "chunks.pkl" THEN NoDir.chunks_pkl ELSE @,
              !.config = IF name = "config.json" THEN NoDir.config ELSE @]

\* the directory after the n-th step of save_index: makedirs, then for faiss.index,
\* chunks.pkl and config.json the opening of the file and the writing of its content
SaveStatement(d, cs, vectors, n) ==
    CASE n = 1 -> [d EXCEPT !.exists = TRUE]
      [] n = 2 -> OpenForWriting(d, "faiss.index")
      [] n = 3 -> [d EXCEPT !.truncated = @ \ {"faiss.index"},
                            !.faiss_index = WriteIndex(vectors)]
      [] n = 4 -> OpenForWriting(d, "chunks.pkl")
      [] n = 5 -> [d EXCEPT !.truncated = @ \ {"chunks.pkl"}, !.chunks_pkl = Pickle(cs)]
      [] n = 6 -> OpenForWriting(d, "config.json")
      [] OTHER -> [d EXCEPT !.truncated = @ \ {"config.json"}, !.config = SaveConfig(cs)]

\* which store state the content of each file now comes from
SnapshotAfter(g, cs, vectors, n) ==
    LET state == [chunks |-> cs, index |-> vectors]
    IN  CASE n = 1 -> g
          [] n = 2 -> [g EXCEPT !.faiss_index = NoState]
          [] n = 3 -> [g EXCEPT !.faiss_index = state]
          [] n = 4 -> [g EXCEPT !.chunks_pkl = NoState]
          [] n = 5 -> [g EXCEPT !.chunks_pkl = state]
          [] n = 6 -> [g EXCEPT !.config = NoState]
          [] OTHER -> [g EXCEPT !.config = state]

SaveStatements == 7

Readable(d, name) == name \in d.files \ d.truncated

\* the directory after the statements from .. to of save_index
RECURSIVE SaveRange(_, _, _, _, _)
SaveRange(d, cs, vectors, from, to) ==
    IF from > to THEN d
    ELSE SaveRange(SaveStatement(d, cs, vectors, from), cs, vectors, from + 1, to)

RECURSIVE SnapshotRange(_, _, _, _, _)
SnapshotRange(g, cs, vectors, from, to) ==
    IF from > to THEN g
    ELSE SnapshotRange(SnapshotAfter(g, cs, vectors, from), cs, vectors, from + 1, to)

\* what reading a file raises, if anything: faiss.read_index raises RuntimeError on
\* a file it cannot open or read, open raises FileNotFoundError, pickle.load raises
\* EOFError and json.load JSONDecodeError on an empty file
ReadError(d, name) ==
    IF name = "faiss.index" THEN (IF Readable(d, name) THEN "" ELSE "RuntimeError")
    ELSE IF name \notin d.files THEN "FileNotFoundError"
    ELSE IF name \notin d.truncated THEN ""
    ELSE IF name = "chunks.pkl" THEN "EOFError" ELSE "JSONDecodeError"

\* load_index on a store holding cs and vectors: the store afterwards, and whether the
\* call returned the config or raised.  self.index is assigned before chunks.pkl is
\* opened, self.chunks before config.json is opened; nothing is compared.
LoadIndex(cs, vectors, d) ==
    IF ReadError(d, "faiss.index") # ""
    THEN [status |-> "raised", error |-> ReadError(d, "faiss.index"), chunks |-> cs,
          index |-> vectors]
    ELSE IF ReadError(d, "chunks.pkl") # ""
    THEN [status |-> "raised", error |-> ReadError(d, "chunks.pkl"), chunks |-> cs,
          index |-> ReadIndex(d.faiss_index)]
    ELSE IF ReadError(d, "config.json") # ""
    THEN [status |-> "raised", error |-> ReadError(d, "config.json"),
          chunks |-> Unpickle(d.chunks_pkl), index |-> ReadIndex(d.faiss_index)]
    ELSE [status |-> "ok", error |-> "", chunks |-> Unpickle(d.chunks_pkl),
          index |-> ReadIndex(d.faiss_index)]

(***************************************************************************)
(* A process that owns one store: it ingests, saves, loads, makes a new    *)
(* store; it may be killed while it saves, and another process follows it. *)
(***************************************************************************)
MaxSaves == 2

StoreFiles == {File(<<LineA>>), File(<<LineB>>), File(<<LineA, LineB>>)}

InitStore ==
    /\ chunks = <<>>
    /\ index = <<>>
    /\ faiss \in FaissBuilds
    /\ hashSeed = 0
    /\ llm_provider = "claude"
    /\ out = NoOut
    /\ NoDirectory
    /\ NoServer
    /\ chunker = NoChunkerCall
    /\ NoLimiter
    /\ NoSimple

\* as vector_indexer.main does, a store is filled by one add_documents
StoreIngest ==
    \E file \in StoreFiles, encode_ok \in BOOLEAN :
        /\ save_pc = 0
        /\ chunks = <<>> /\ index = <<>>
        /\ AddDocuments(file, encode_ok)

\* one statement of save_index
SaveStep ==
    /\ save_pc = 0 => saves < MaxSaves
    /\ disk' = SaveStatement(disk, chunks, index, save_pc + 1)
    /\ snapshot_of' = SnapshotAfter(snapshot_of, chunks, index, save_pc + 1)
    /\ save_pc' = (save_pc + 1) % SaveStatements
    /\ saves' = IF save_pc = 0 THEN saves + 1 ELSE saves
    /\ out' = [NoOut EXCEPT !.op = "save",
                            !.status = IF save_pc + 1 = SaveStatements THEN "ok"
                                       ELSE "running"]
    /\ UNCHANGED <<storeVars, serverVars, chunker, limiterVars, simpleVars>>

\* the process is killed inside save_index; the next process starts with a new store
Kill ==
    /\ save_pc # 0
    /\ chunks' = <<>>
    /\ index' = <<>>
    /\ save_pc' = 0
    /\ out' = NoOut
    /\ UNCHANGED <<faiss, hashSeed, llm_provider, disk, snapshot_of, saves, serverVars,
                   chunker, limiterVars, simpleVars>>

\* PolicyVectorStore()
NewStore ==
    /\ save_pc = 0
    /\ chunks # <<>> \/ index # <<>>
    /\ chunks' = <<>>
    /\ index' = <<>>
    /\ out' = NoOut
    /\ UNCHANGED <<faiss, hashSeed, llm_provider, diskVars, serverVars, chunker, limiterVars, simpleVars>>

LoadStep ==
    LET r == LoadIndex(chunks, index, disk)
    IN  /\ save_pc = 0
        /\ out.op # "load"
        /\ chunks' = r.chunks
        /\ index' = r.index
        /\ out' = [NoOut EXCEPT !.op = "load", !.status = r.status, !.error = r.error]
        /\ UNCHANGED <<faiss, hashSeed, llm_provider, diskVars, serverVars, chunker, limiterVars, simpleVars>>

NextStore == StoreIngest \/ SaveStep \/ Kill \/ NewStore \/ LoadStep

SpecStore == InitStore /\ [][NextStore]_vars

(***************************************************************************)
(* api_server and enhanced_main: the globals vector_store and rag_service, *)
(* startup_event, the run_ingestion background task of POST /api/ingest    *)
(* and rag_query.  While a server module runs, chunks and index are those  *)
(* of rag_service.vector_store.  A background task runs in a worker        *)
(* thread, its two subprocesses beside the server: their statements        *)
(* interleave with the requests and with the other task.                   *)
(***************************************************************************)
Apps == {"api_server", "enhanced_main"}

DataFiles == {File(<<LineA>>), File(<<LineB>>)}

\* a global vector_store that is set
StoreOf(cs, vectors) == [none |-> FALSE, chunks |-> cs, index |-> vectors]

\* startup_event on the directory d: vector_store is assigned a new store before
\* load_index runs on it, rag_service only once its own load_index has returned;
\* whatever the try block raises is printed
Startup(d) ==
    IF ~d.exists
    THEN [server |-> "up", vector_store |-> NoStore, rag_service |-> None,
          chunks |-> <<>>, index |-> <<>>]
    ELSE LET l == LoadIndex(<<>>, <<>>, d)
         IN  IF l.status # "ok"
             THEN [server |-> "up", vector_store |-> StoreOf(l.chunks, l.index),
                   rag_service |-> None, chunks |-> <<>>, index |-> <<>>]
             ELSE [server |-> "up", vector_store |-> StoreOf(l.chunks, l.index),
                   rag_service |-> "PolicyRAGService", chunks |-> l.chunks,
                   index |-> l.index]

StartupEvent ==
    LET s == Startup(disk)
    IN  /\ server = "starting"
        /\ server' = s.server
        /\ vector_store' = s.vector_store
        /\ rag_service' = s.rag_service
        /\ chunks' = s.chunks
        /\ index' = s.index
        /\ UNCHANGED <<faiss, hashSeed, llm_provider, out, diskVars, app, items, tasks,
                       chunker, limiterVars, simpleVars>>

\* POST /api/ingest of api_server: the task is handed to the background tasks
TriggerIngest(r) ==
    /\ app = "api_server"
    /\ server = "up"
    /\ tasks[r].pc = "idle"
    /\ tasks' = [tasks EXCEPT ![r] = [NoTask EXCEPT !.pc = "poc"]]
    /\ UNCHANGED <<storeVars, out, diskVars, app, server, vector_store, rag_service, items,
                   chunker, limiterVars, simpleVars>>

\* the mutant: the index is built whatever the data ingestion returned
PocReturnsUnchecked(r, rebuild_index, returncode, file) ==
    /\ tasks[r].pc = "poc"
    /\ items' = IF returncode = 0 THEN file ELSE items
    /\ tasks' = [tasks EXCEPT ![r] =
                    IF rebuild_index \/ ~disk.exists
                    THEN [NoTask EXCEPT !.pc = "build", !.returncode = returncode]
                    ELSE [Done EXCEPT !.returncode = returncode]]
    /\ UNCHANGED <<storeVars, out, diskVars, app, server, vector_store, rag_service,
                   chunker, limiterVars, simpleVars>>

\* the data ingestion subprocess returns, or is killed at the timeout of subprocess.run:
\* with 0 it has written the data file.
\* rebuild_index is the field of the request, which nothing reads before this point.
PocReturns(r, rebuild_index, returncode, file) ==
    /\ tasks[r].pc = "poc"
    /\ items' = IF returncode = 0 THEN file ELSE items
    /\ tasks' = [tasks EXCEPT ![r] =
                    IF returncode = 0 /\ (rebuild_index \/ ~disk.exists)
                    THEN [NoTask EXCEPT !.pc = "build", !.returncode = returncode]
                    ELSE [Done EXCEPT !.returncode = returncode]]
    /\ UNCHANGED <<storeVars, out, diskVars, app, server, vector_store, rag_service,
                   chunker, limiterVars, simpleVars>>

\* vector_indexer.main in the subprocess: a new store, add_documents on the data file
IndexerBuilds(r, encode_ok) ==
    LET a == AddDocumentsResult(<<>>, <<>>, items, encode_ok)
    IN  /\ tasks[r].pc = "build"
        /\ tasks' = [tasks EXCEPT ![r] =
                        IF a.out.status = "ok"
                        THEN [NoTask EXCEPT !.pc = "save", !.n = 1, !.chunks = a.chunks,
                                            !.index = a.index]
                        ELSE [Done EXCEPT !.returncode = 1]]
        /\ UNCHANGED <<storeVars, out, diskVars, app, server, vector_store, rag_service,
                       items, chunker, limiterVars, simpleVars>>

\* the next statement of save_index in the subprocess; after the last one main returns
\* and the task goes on to reload the services
IndexerSaves(r) ==
    LET t == tasks[r]
    IN  /\ t.pc = "save"
        /\ disk' = SaveStatement(disk, t.chunks, t.index, t.n)
        /\ snapshot_of' = SnapshotAfter(snapshot_of, t.chunks, t.index, t.n)
        /\ tasks' = [tasks EXCEPT ![r] = IF t.n = SaveStatements
                                         THEN [NoTask EXCEPT !.pc = "reload"]
                                         ELSE [t EXCEPT !.n = t.n + 1]]
        /\ UNCHANGED <<storeVars, out, save_pc, saves, app, server, vector_store,
                       rag_service, items, chunker, limiterVars, simpleVars>>

\* subprocess.run reaches its timeout: the subprocess is killed, TimeoutExpired is
\* caught by the task's outer handler
IndexerKilled(r) ==
    /\ tasks[r].pc \in {"build", "save"}
    /\ tasks' = [tasks EXCEPT ![r] = [Done EXCEPT !.returncode = Killed]]
    /\ UNCHANGED <<storeVars, out, diskVars, app, server, vector_store, rag_service, items,
                   chunker, limiterVars, simpleVars>>

\* vector_store = PolicyVectorStore()
ReloadNewStore(r) ==
    /\ tasks[r].pc = "reload"
    /\ vector_store' = StoreOf(<<>>, <<>>)
    /\ tasks' = [tasks EXCEPT ![r] = [NoTask EXCEPT !.pc = "load"]]
    /\ UNCHANGED <<storeVars, out, diskVars, app, server, rag_service, items, chunker, limiterVars, simpleVars>>

\* vector_store.load_index(...): on the store the global already names
ReloadLoadIndex(r) ==
    LET l == LoadIndex(vector_store.chunks, vector_store.index, disk)
    IN  /\ tasks[r].pc = "load"
        /\ vector_store' = StoreOf(l.chunks, l.index)
        /\ tasks' = [tasks EXCEPT ![r] = IF l.status = "ok"
                                         THEN [NoTask EXCEPT !.pc = "service"]
                                         ELSE Done]
        /\ UNCHANGED <<storeVars, out, diskVars, app, server, rag_service, items, chunker, limiterVars, simpleVars>>

\* the mutant: a reload that fails takes the service away
ReloadServiceOrNone(rs, cs, vectors, d) ==
    LET l == LoadIndex(<<>>, <<>>, d)
    IN  IF l.status = "ok"
        THEN [rag_service |-> "PolicyRAGService", chunks |-> l.chunks, index |-> l.index]
        ELSE [rag_service |-> None, chunks |-> <<>>, index |-> <<>>]

\* rag_service = PolicyRAGService(...): the new service loads its own store, the global
\* is assigned when the constructor has returned and keeps its value when it raised
ReloadServiceResult(rs, cs, vectors, d) ==
    LET l == LoadIndex(<<>>, <<>>, d)
    IN  IF l.status = "ok"
        THEN [rag_service |-> "PolicyRAGService", chunks |-> l.chunks, index |-> l.index]
        ELSE [rag_service |-> rs, chunks |-> cs, index |-> vectors]

ReloadService(r) ==
    LET s == ReloadServiceResult(rag_service, chunks, index, disk)
    IN  /\ tasks[r].pc = "service"
        /\ rag_service' = s.rag_service
        /\ chunks' = s.chunks
        /\ index' = s.index
        /\ tasks' = [tasks EXCEPT ![r] = Done]
        /\ UNCHANGED <<faiss, hashSeed, llm_provider, out, diskVars, app, server,
                       vector_store, items, chunker, limiterVars, simpleVars>>

\* GET /api/health of api_server: what it reports of the two globals
HealthCheck ==
    [vector_store_loaded |-> ~vector_store.none, rag_service_loaded |-> rag_service # None]

ApiQueries == {<<"hydrogen">>}

\* what rag_query of api_server answers while rag_service is None
ServiceUnavailable(query, k) ==
    [NoOut EXCEPT !.op = "rag_query", !.status = "raised", !.error = "503", !.q = query,
                  !.k = k]

\* what rag_query of enhanced_main answers while rag_service is None
MockResponse(query, k) ==
    [NoOut EXCEPT !.op = "rag_query", !.status = "ok", !.q = query, !.k = k,
                  !.terms = <<query, query>>,  \* a one-word query has no space to replace
                  !.answer = [kind |-> "mock", markers |-> <<>>],
                  !.conf = [num |-> 75, den |-> 100]]

\* rag_query of either module; an exception of query() is answered with status 500,
\* here a result of query with status "raised"
RagQuery(query, source_filter, doc_type_filter, k, outcome, text) ==
    /\ server = "up"
    /\ IF rag_service = None
       THEN /\ out' = IF app = "api_server" THEN ServiceUnavailable(query, k)
                      ELSE MockResponse(query, k)
            /\ UNCHANGED <<storeVars, diskVars, serverVars, chunker, limiterVars, simpleVars>>
       ELSE QueryCall(query, source_filter, doc_type_filter, k, outcome, text)

\* the index directory a server is started on: none, one that a whole vector_indexer
\* run has saved, or one whose indexer was killed after its first write
InitApi ==
    /\ app \in Apps
    /\ server = "starting"
    /\ vector_store = NoStore
    /\ rag_service = None
    /\ chunks = <<>>
    /\ index = <<>>
    /\ items = MissingFile
    /\ \E n \in {0, 3, SaveStatements} :
        LET b == AddDocumentsResult(<<>>, <<>>, File(<<LineA>>), TRUE)
        IN  /\ disk = SaveRange(NoDir, b.chunks, b.index, 1, n)
            /\ snapshot_of = SnapshotRange(NoSnapshot, b.chunks, b.index, 1, n)
    /\ save_pc = 0
    /\ saves = 0
    /\ tasks = [r \in Requests |-> NoTask]
    /\ faiss \in FaissBuilds
    /\ hashSeed = 0
    /\ llm_provider = "claude"
    /\ out = NoOut
    /\ chunker = NoChunkerCall
    /\ NoLimiter
    /\ NoSimple

Trigger == \E r \in Requests : TriggerIngest(r)

Poc ==
    \E r \in Requests, rebuild_index \in BOOLEAN, returncode \in {0, 1, Killed},
       file \in DataFiles :
        PocReturns(r, rebuild_index, returncode, file)

Indexer ==
    \E r \in Requests :
        \/ \E encode_ok \in BOOLEAN : IndexerBuilds(r, encode_ok)
        \/ IndexerSaves(r)
        \/ IndexerKilled(r)

Reload == \E r \in Requests : ReloadNewStore(r) \/ ReloadLoadIndex(r) \/ ReloadService(r)

\* a request for the most results the model asks for; the text generation answers
Query == \E query \in ApiQueries : RagQuery(query, None, None, MaxK, "ok", <<1>>)

NextApi == StartupEvent \/ Trigger \/ Poc \/ Indexer \/ Reload \/ Query

SpecApi == InitApi /\ [][NextApi]_vars

(***************************************************************************)
(* enhanced_main: the rate limiting of the middleware add_security_headers.*)
(* The statements under rate_limit_lock are taken one at a time, so that   *)
(* calls interleave wherever the lock lets them.                           *)
(***************************************************************************)
MaxNow == 5

\* the limits at the scale of the model: 100, 10 and 5 requests per window of 3600 s
RATE_LIMITS ==
    [endpoint \in {"default", "/api/rag/query", "/api/ingest"} |->
        [requests |-> CASE endpoint = "default" -> 3
                        [] endpoint = "/api/rag/query" -> 2
                        [] OTHER -> 1,
         window |-> 2]]

\* RATE_LIMITS.get(endpoint, RATE_LIMITS["default"])
LimitConfig(endpoint) ==
    IF endpoint \in DOMAIN RATE_LIMITS THEN RATE_LIMITS[endpoint] ELSE RATE_LIMITS["default"]

KeyOf(call) == ClientKey(call.client_ip, call.endpoint)

InitLimiter ==
    /\ chunks = <<>>
    /\ index = <<>>
    /\ faiss \in FaissBuilds
    /\ hashSeed = 0
    /\ llm_provider = "claude"
    /\ out = NoOut
    /\ NoDirectory
    /\ NoServer
    /\ chunker = NoChunkerCall
    /\ NoLimiter
    /\ NoSimple

\* a request reaches the middleware
Arrive(c, client_ip, endpoint) ==
    /\ calls[c].pc \in {"idle", "done"}
    /\ calls' = [calls EXCEPT ![c] = [NoCall EXCEPT !.pc = "acquire", !.client_ip = client_ip,
                                                    !.endpoint = endpoint]]
    /\ UNCHANGED <<rate_limit_storage, rate_limit_lock, now, passed, storeVars, out, diskVars, serverVars,
                   chunker, simpleVars>>

\* the mutant: the block is entered whoever holds the lock
AcquireUnlocked(c) ==
    /\ calls[c].pc = "acquire"
    /\ rate_limit_lock' = c
    /\ calls' = [calls EXCEPT ![c].pc = "window", ![c].now = now,
                              ![c].seen = rate_limit_storage[KeyOf(calls[c])]]
    /\ UNCHANGED <<rate_limit_storage, now, passed, storeVars, out, diskVars, serverVars,
                   chunker, simpleVars>>

\* with rate_limit_lock: now = time.time()
Acquire(c) ==
    /\ calls[c].pc = "acquire"
    /\ rate_limit_lock = None
    /\ rate_limit_lock' = c
    /\ calls' = [calls EXCEPT ![c].pc = "window", ![c].now = now,
                              ![c].seen = rate_limit_storage[KeyOf(calls[c])]]
    /\ UNCHANGED <<rate_limit_storage, now, passed, storeVars, out, diskVars, serverVars,
                   chunker, simpleVars>>

\* if now > reset_time: the entry of the key is replaced
ResetWindow(c) ==
    LET call == calls[c]
        key == KeyOf(call)
        expired == call.now > rate_limit_storage[key].reset_time
    IN  /\ call.pc = "window"
        /\ rate_limit_storage' =
              IF expired
              THEN [rate_limit_storage EXCEPT
                      ![key] = [count |-> 0,
                                reset_time |-> call.now + LimitConfig(call.endpoint).window]]
              ELSE rate_limit_storage
        /\ passed' = IF expired THEN [passed EXCEPT ![key] = 0] ELSE passed
        /\ calls' = [calls EXCEPT ![c].pc = "check"]
        /\ UNCHANGED <<rate_limit_lock, now, storeVars, out, diskVars, serverVars, chunker,
                       simpleVars>>

\* if count >= requests: return Response(status_code=429), which leaves the with block
CheckLimit(c) ==
    LET call == calls[c]
        over == rate_limit_storage[KeyOf(call)].count >= LimitConfig(call.endpoint).requests
    IN  /\ call.pc = "check"
        /\ calls' = [calls EXCEPT ![c].pc = IF over THEN "done" ELSE "increment",
                                  ![c].status = IF over THEN 429 ELSE 0]
        /\ rate_limit_lock' = IF over THEN None ELSE rate_limit_lock
        /\ UNCHANGED <<rate_limit_storage, now, passed, storeVars, out, diskVars, serverVars,
                   chunker, simpleVars>>

\* count += 1, the end of the with block and call_next(request): the middleware has no
\* await between them
Increment(c) ==
    LET key == KeyOf(calls[c])
    IN  /\ calls[c].pc = "increment"
        /\ rate_limit_storage' = [rate_limit_storage EXCEPT ![key].count = @ + 1]
        /\ rate_limit_lock' = None
        /\ passed' = [passed EXCEPT ![key] = @ + 1]
        /\ calls' = [calls EXCEPT ![c].pc = "handler"]
        /\ UNCHANGED <<now, storeVars, out, diskVars, serverVars, chunker, simpleVars>>

\* the handler has answered
HandlerReturns(c) ==
    /\ calls[c].pc = "handler"
    /\ calls' = [calls EXCEPT ![c].pc = "done", ![c].status = 200]
    /\ UNCHANGED <<rate_limit_storage, rate_limit_lock, now, passed, storeVars, out, diskVars, serverVars,
                   chunker, simpleVars>>

\* time passes
Tick ==
    /\ now < MaxNow
    /\ now' = now + 1
    /\ UNCHANGED <<rate_limit_storage, rate_limit_lock, calls, passed, storeVars, out, diskVars, serverVars,
                   chunker, simpleVars>>

NextLimiter ==
    \/ \E c \in Callers :
        \/ \E client_ip \in Clients, endpoint \in Endpoints : Arrive(c, client_ip, endpoint)
        \/ Acquire(c)
        \/ ResetWindow(c)
        \/ CheckLimit(c)
        \/ Increment(c)
        \/ HandlerReturns(c)
    \/ Tick

SpecLimiter == InitLimiter /\ [][NextLimiter]_vars

(***************************************************************************)
(* api_server_simple: the global documents_cache, filled by load_documents *)
(* from documents.pkl or, without it, from items.jsonl.  A document is the *)
(* record of its line.  The two files are written by other processes.      *)
(***************************************************************************)
\* load_documents_from_jsonl: every line parsed, or [] when there is no file or a line
\* does not parse
LoadDocumentsFromJsonl(file) ==
    IF ~file.exists THEN <<>>
    ELSE IF \E i \in 1..Len(file.lines) : file.lines[i].kind = "malformed" THEN <<>>
    ELSE NonBlank(file.lines)

\* load_documents: the value it assigns to documents_cache; [] when pickle.load raised
LoadDocuments(pkl, file) ==
    IF pkl.exists
    THEN IF pkl.corrupt THEN <<>> ELSE pkl.docs
    ELSE LoadDocumentsFromJsonl(file)

\* the order of the published timestamps of the model's documents
PublishedRank(doc) ==
    CASE doc.published = "recent" -> 3
      [] doc.published = "mid" -> 2
      [] doc.published = "old" -> 1
      [] OTHER -> 0

\* list.sort(key=published, reverse=True): newest first, equal keys in their old order
SortNewestFirst(docs) ==
    LET n == Len(docs)
        Place(i) == 1 + Cardinality({j \in 1..n :
                        \/ PublishedRank(docs[j]) > PublishedRank(docs[i])
                        \/ PublishedRank(docs[j]) = PublishedRank(docs[i]) /\ j < i})
    IN  [p \in 1..n |-> docs[CHOOSE i \in 1..n : Place(i) = p]]

\* the filters of filter_documents the model's requests use, on a list
Filtered(docs, days, source) ==
    SelectSeq(docs, LAMBDA doc : /\ days # 0 => doc.published = "recent"
                                 /\ FilterGiven(source) => doc.source = source)

\* the mutant: the list passed in is sorted, not a copy of it
FilterDocumentsInPlace(documents, days, source, limit) ==
    [res |-> Take(Filtered(SortNewestFirst(documents), days, source), limit),
     documents |-> SortNewestFirst(documents)]

\* filter_documents: works on documents.copy(); res is what it returns, documents the
\* list that was passed in as the call leaves it
FilterDocuments(documents, days, source, limit) ==
    [res |-> Take(SortNewestFirst(Filtered(documents, days, source)), limit),
     documents |-> documents]

SimpleDocs == {<<LineA>>, <<LineB, LineA>>, <<LineB, LineNoId, LineA>>}

Pickles ==
    {NoPickle, [exists |-> TRUE, corrupt |-> TRUE, docs |-> <<>>]}
    \cup {[exists |-> TRUE, corrupt |-> FALSE, docs |-> docs] : docs \in SimpleDocs \cup {<<>>}}

SimpleFiles ==
    {MissingFile, File(<<LineA, LineMalformed>>), File(<<LineBlank, LineA2>>)}
    \cup {File(docs) : docs \in SimpleDocs}

InitSimple ==
    /\ chunks = <<>>
    /\ index = <<>>
    /\ faiss \in FaissBuilds
    /\ hashSeed = 0
    /\ llm_provider = "claude"
    /\ out = NoOut
    /\ NoDirectory
    /\ app = "api_server_simple"
    /\ server = "starting"
    /\ vector_store = NoStore
    /\ rag_service = None
    /\ items \in SimpleFiles
    /\ tasks = [r \in Requests |-> NoTask]
    /\ chunker = NoChunkerCall
    /\ NoLimiter
    /\ documents_cache = <<>>
    /\ documents_pkl \in Pickles

\* startup_event: load_documents()
SimpleStartup ==
    /\ server = "starting"
    /\ server' = "up"
    /\ documents_cache' = LoadDocuments(documents_pkl, items)
    /\ UNCHANGED <<storeVars, out, diskVars, app, vector_store, rag_service, items, tasks,
                   chunker, limiterVars, documents_pkl>>

\* GET /api/documents: load_documents() when the cache is empty, 404 when it still is,
\* else filter_documents on the cache (days 0: the filter is not given)
GetDocuments(days, source, limit) ==
    LET loaded == IF documents_cache = <<>> THEN LoadDocuments(documents_pkl, items)
                  ELSE documents_cache
        f == FilterDocuments(loaded, days, source, limit)
    IN  /\ server = "up"
        /\ documents_cache' = IF loaded = <<>> THEN loaded ELSE f.documents
        /\ out' = IF loaded = <<>>
                  THEN [NoOut EXCEPT !.op = "get_documents", !.status = "raised",
                                     !.error = "404"]
                  ELSE [NoOut EXCEPT !.op = "get_documents", !.status = "ok", !.k = limit,
                                     !.sf = source, !.res = f.res, !.count = Len(f.res)]
        /\ UNCHANGED <<storeVars, diskVars, serverVars, chunker, limiterVars, documents_pkl>>

\* the endpoints that read the cache: health, stats, rag_query, topics, sources
ReadCache(endpoint) ==
    /\ server = "up"
    /\ out' = [NoOut EXCEPT !.op = endpoint, !.status = "ok", !.count = Len(documents_cache)]
    /\ UNCHANGED <<storeVars, diskVars, serverVars, chunker, limiterVars, simpleVars>>

\* another process writes documents.pkl and items.jsonl
FilesWritten(pkl, file) ==
    /\ documents_pkl' = pkl
    /\ items' = file
    /\ UNCHANGED <<storeVars, out, diskVars, app, server, vector_store, rag_service, tasks,
                   chunker, limiterVars, documents_cache>>

NextSimple ==
    \/ SimpleStartup
    \/ \E days \in {0, 30}, source \in SourceFilters, limit \in {1, 100} :
        GetDocuments(days, source, limit)
    \/ \E endpoint \in {"health_check", "get_stats"} : ReadCache(endpoint)
    \/ \E pkl \in Pickles, file \in SimpleFiles : FilesWritten(pkl, file)

SpecSimple == InitSimple /\ [][NextSimple]_vars

(***************************************************************************)
(* _chunk_text on its own: one call on a text and a max_length             *)
(***************************************************************************)
MaxTextLen == 4
MaxMaxLength == 4

Chars == {"a", ".", "!", "?", " "}

InitChunker ==
    /\ chunks = <<>>
    /\ index = <<>>
    /\ faiss \in FaissBuilds
    /\ hashSeed = 0
    /\ llm_provider = "claude"
    /\ out = NoOut
    /\ NoDirectory
    /\ NoServer
    /\ NoLimiter
    /\ NoSimple
    /\ \E text \in SeqsUpTo(Chars, MaxTextLen), max_length \in 1..MaxMaxLength :
        chunker = [NoChunkerCall EXCEPT !.text = text, !.max_length = max_length]

ChunkStep ==
    /\ ~chunker.called
    /\ chunker' = [chunker EXCEPT !.called = TRUE,
                                  !.chunks = ChunkText(chunker.text, chunker.max_length)]
    /\ UNCHANGED <<storeVars, out, diskVars, serverVars, limiterVars, simpleVars>>

NextChunker == ChunkStep

SpecChunker == InitChunker /\ [][NextChunker]_vars

(***************************************************************************)
(* Properties of the vector store                                          *)
(***************************************************************************)
Lockstep ==
    /\ Len(chunks) = Len(index)
    /\ \A i \in 1..Len(chunks) : i <= Len(index) /\ index[i] = Embed(chunks[i].content)

\* C1: after an ingest that returned, whatever ingests came before it, the chunk store
\* and the index have the same length and vector i is the embedding of chunk i's content.
C1_LockstepAfterIngest == (out.op = "ingest" /\ out.status = "ok") => Lockstep

\* C2: an ingest that fails part-way leaves chunk store and index paired: both appends
\* of the batch are committed or both are rolled back.
C2_FailedIngestKeepsLockstep == (out.op = "ingest" /\ out.status = "raised") => Lockstep

\* the lines of a file that are records with every required field
IsGoodLine(l) == l.kind = "doc" /\ RequiredFields \subseteq l.fields
HasBadLine(file) ==
    \E i \in 1..Len(file.lines) :
        file.lines[i].kind # "blank" /\ ~IsGoodLine(file.lines[i])
ChunksOfGoodLines(file) ==
    ProcessDocuments(SelectSeq(file.lines, IsGoodLine), <<>>).appended
IsSuffix(s, t) == Len(s) <= Len(t) /\ SubSeq(t, Len(t) - Len(s) + 1, Len(t)) = s

\* C3: an ingest of a file that opens and holds a malformed line or a record without a
\* required field skips that line and chunks and indexes the other records of the file.
C3_BadLineSkipped ==
    (/\ out.op = "ingest"
     /\ out.file.exists
     /\ HasBadLine(out.file)
     /\ ChunksOfGoodLines(out.file) # <<>>
     /\ out.error # "encode")
    => /\ out.status = "ok"
       /\ out.count = Len(ChunksOfGoodLines(out.file))
       /\ IsSuffix(ChunksOfGoodLines(out.file), chunks)

\* the place of index position pos among the candidates the index returns for out's query
CandidatePlace(pos) ==
    LET candidates == FaissSearch(index, Embed(out.q), out.k * CandidateFactor)
    IN  CHOOSE p \in 1..Len(candidates) : candidates[p].label = pos - 1

\* C4 (as claimed): search returns at most k pairs, highest score first, equal scores in
\* index insertion order.
C4_TiesInInsertionOrder ==
    (out.op = "search" /\ out.status = "ok")
    => /\ Len(out.res) <= out.k
       /\ \A i, j \in 1..Len(out.res) :
            i < j => \/ out.res[i].score > out.res[j].score
                     \/ /\ out.res[i].score = out.res[j].score
                        /\ out.res[i].pos < out.res[j].pos

\* C4 (amended): search returns at most k pairs, scores never increasing, the pairs in
\* the order in which the similarity index returned their positions.
C4_BoundedAndOrdered ==
    (out.op = "search" /\ out.status = "ok")
    => /\ Len(out.res) <= out.k
       /\ \A i, j \in 1..Len(out.res) :
            i < j => /\ out.res[i].score >= out.res[j].score
                     /\ CandidatePlace(out.res[i].pos) < CandidatePlace(out.res[j].pos)

\* a search that filled its k results from a longer index, two of them with equal scores
C4_Witness ==
    /\ out.op = "search" /\ out.status = "ok"
    /\ Len(out.res) = out.k /\ Len(index) > out.k
    /\ \E i, j \in 1..Len(out.res) : i < j /\ out.res[i].score = out.res[j].score

PassesFilters(chunk) ==
    /\ FilterGiven(out.sf) => chunk.source = out.sf
    /\ FilterGiven(out.df) => chunk.doc_type = out.df

\* the candidates the index returns for out's search: its 3*k best positions
TopCandidates == FaissSearch(index, Embed(out.q), out.k * CandidateFactor)

\* C25: the result of a search is the first k of the 3*k highest-scoring index positions
\* that are valid and pass the filters, in score order, and nothing else: k results
\* when at least k of those candidates match, otherwise only the matching ones.
C25_OnlyTopCandidates ==
    (out.op = "search" /\ out.status = "ok")
    => LET matching == SelectSeq(TopCandidates,
                                 LAMBDA c : /\ c.label # -1
                                            /\ c.label + 1 <= Len(chunks)
                                            /\ PassesFilters(chunks[c.label + 1]))
           expected == Take(matching, out.k)
       IN  /\ Len(out.res) = Len(expected)
           /\ \A i \in 1..Len(expected) :
                /\ i <= Len(out.res)
                /\ out.res[i].pos = expected[i].label + 1
                /\ out.res[i].score = expected[i].score
                /\ out.res[i].chunk = chunks[out.res[i].pos]

\* a filtered search returned fewer than k results although a chunk that passes the
\* filters is in the index, below the 3*k candidates
C25_Witness ==
    /\ out.op = "search" /\ out.status = "ok"
    /\ FilterGiven(out.sf) \/ FilterGiven(out.df)
    /\ Len(out.res) < out.k
    /\ \E i \in 1..Len(index) :
        /\ i <= Len(chunks)
        /\ PassesFilters(chunks[i])
        /\ \A p \in 1..Len(TopCandidates) : TopCandidates[p].label # i - 1

\* C23: in every state of the chunk store, after any ingests, the chunk_ids are pairwise
\* distinct, each the doc_id of its document with the position of the chunk in it.
C23_ChunkIdsDistinct ==
    \A i, j \in 1..Len(chunks) :
        /\ chunks[i].chunk_id = <<chunks[i].doc_id, chunks[i].chunk_index>>
        /\ i # j => chunks[i].chunk_id # chunks[j].chunk_id

(***************************************************************************)
(* Properties of the RAG service                                           *)
(***************************************************************************)
\* the entries of pool that are, for their chunk_id, the first one with the highest score
BestPerChunk(pool) ==
    LET Keep(i) ==
            \A j \in 1..Len(pool) :
                (j # i /\ pool[j].chunk.chunk_id = pool[i].chunk.chunk_id)
                => \/ pool[j].score < pool[i].score
                   \/ pool[j].score = pool[i].score /\ j > i
        RECURSIVE From(_)
        From(i) == IF i > Len(pool) THEN <<>>
                   ELSE (IF Keep(i) THEN <<pool[i]>> ELSE <<>>) \o From(i + 1)
    IN  From(1)

\* x put into the descending sequence s behind every entry with a score >= its own
RECURSIVE InsertByScore(_, _)
InsertByScore(s, x) ==
    IF s = <<>> THEN <<x>>
    ELSE IF Head(s).score >= x.score THEN <<Head(s)>> \o InsertByScore(Tail(s), x)
    ELSE <<x>> \o s

RECURSIVE InsertionSort(_, _)
InsertionSort(s, sorted) ==
    IF s = <<>> THEN sorted ELSE InsertionSort(Tail(s), InsertByScore(sorted, Head(s)))

\* C6: retrieve returns the pool (primary results, then secondary results) deduplicated
\* by chunk_id keeping the highest score, sorted by score descending with a stable sort,
\* truncated to k: at most k entries and no chunk_id twice.
C6_RetrieveIsRerankedPool ==
    (out.op = "retrieve" /\ out.status = "ok")
    => LET primary == Search(chunks, index, out.q, out.k, out.sf, out.df).res
       IN  /\ Take(out.pool, Len(primary)) = primary
           /\ out.res = Take(InsertionSort(BestPerChunk(out.pool), <<>>), out.k)
           /\ Len(out.res) <= out.k
           /\ \A i, j \in 1..Len(out.res) :
                i # j => out.res[i].chunk.chunk_id # out.res[j].chunk.chunk_id

\* a retrieve whose pool holds a chunk twice, the later hit with the higher score, and
\* an expansion hit that ties with a primary hit
C6_Witness ==
    /\ out.op = "retrieve" /\ out.status = "ok" /\ out.res # <<>>
    /\ \E i, j \in 1..Len(out.pool) :
        /\ i < j
        /\ out.pool[i].chunk.chunk_id = out.pool[j].chunk.chunk_id
        /\ out.pool[i].score < out.pool[j].score
    /\ \E i, j \in 1..Len(out.pool) :
        /\ i < j
        /\ out.pool[i].chunk.chunk_id # out.pool[j].chunk.chunk_id
        /\ out.pool[i].score = out.pool[j].score

\* C7: expand returns a sequence without duplicates, the original query first, the other
\* terms in the order they were first produced (concept terms, then synonyms).
C7_ExpandOrderedOriginalFirst ==
    out.op = "expand"
    => /\ \A i, j \in 1..Len(out.terms) : i # j => out.terms[i] # out.terms[j]
       /\ out.terms # <<>> /\ out.terms[1] = out.q
       /\ Tail(out.terms)
            = FirstSeen(ConceptExpansions(out.q, 1) \o SynonymExpansions(out.q, 1), {out.q})

\* C8: a retrieve repeated with the same query, k and filters on an unchanged index
\* returns what the first one returned.
C8_RetrieveRepeatable ==
    [][(/\ out.op = "retrieve" /\ out'.op = "retrieve"
        /\ out'.q = out.q /\ out'.k = out.k /\ out'.sf = out.sf /\ out'.df = out.df
        /\ chunks' = chunks /\ index' = index)
       => (out'.status = out.status /\ out'.res = out.res)]_vars

\* C9: the confidence of every result of query is in [0, 1].
C9_ConfidenceBounds ==
    (out.op = "query" /\ out.status = "ok")
    => out.conf.den > 0 /\ 0 <= out.conf.num /\ out.conf.num <= out.conf.den

\* a query whose answer holds more citation markers than there are sources
C9_Witness ==
    /\ out.op = "query" /\ out.status = "ok"
    /\ out.res # <<>> /\ Len(out.answer.markers) > Len(out.res)
    /\ out.conf.num = out.conf.den

AnswerNonEmpty(answer) ==
    answer.kind \in {"api_error", "llm_error", "template"} \/ answer.markers # <<>>

\* C10: when the text-generation call fails, query returns a result with a non-empty
\* answer and confidence exactly 0.
C10_FailureGivesZeroConfidence ==
    (out.op = "query" /\ out.llm \in LlmFailures)
    => out.status = "ok" /\ AnswerNonEmpty(out.answer) /\ out.conf.num = 0

\* the confidence of an answer whose citation_score is citations / max_citations
ConfidenceOfCitations(citations, sources) ==
    LET max_citations == Min(Len(sources), ContextSources)
        n == Len(sources)
    IN  IF n = 0
        THEN [num |-> 3, den |-> 10]
        ELSE ClampConfidence([num |-> 400 * citations * n
                                      + 6 * SumScores(sources) * max_citations,
                              den |-> 1000 * max_citations * n])

\* C24: when generation succeeds, the confidence is the one of a citation_score that
\* counts each bracketed source number of the answer once, however often it occurs,
\* over min(len(sources), 6), and that is 0 when there are no sources.
C24_DistinctCitations ==
    (out.op = "query" /\ out.status = "ok" /\ out.llm = "ok")
    => LET sources == [i \in 1..Len(out.res) |-> out.res[i].chunk]
           distinct == {out.answer.markers[i] : i \in 1..Len(out.answer.markers)}
           c == ConfidenceOfCitations(Cardinality(distinct), sources)
       IN  out.conf.num * c.den = c.num * out.conf.den

\* C21: retrieve issues one primary search with the original query and the full k, then
\* one secondary search for each of the first three expansion terms other than the
\* original query, each for max(1, k div 2) results and with the same filters.
C21_SecondarySearches ==
    out.op = "retrieve" =>
        LET others == Take(SelectSeq(ExpandQuery(out.q), LAMBDA t : t # out.q),
                           SecondaryTerms)
            half == IF out.k \div 2 >= 1 THEN out.k \div 2 ELSE 1
        IN  out.calls
            = <<SearchRequest(out.q, out.k, out.sf, out.df)>>
              \o [i \in 1..Len(others) |-> SearchRequest(others[i], half, out.sf, out.df)]

(***************************************************************************)
(* Properties of the chunker and of the ingest of empty documents          *)
(***************************************************************************)
\* the chunk is one sentence of the text, longer than max_length, with the ". " the
\* chunker appends to a sentence, stripped
SingleLongSentence(chunk, text, max_length) ==
    \E i \in 1..Len(SplitSentences(text)) :
        LET sentence == SplitSentences(text)[i]
        IN  Len(sentence) > max_length /\ chunk = Strip(sentence \o <<".", " ">>)

\* C18: every chunk _chunk_text returns is at most max_length long, unless it is a single
\* sentence that alone is longer than max_length.
C18_ChunkLengthBound ==
    chunker.called =>
        \A i \in 1..Len(chunker.chunks) :
            \/ Len(chunker.chunks[i]) <= chunker.max_length
            \/ SingleLongSentence(chunker.chunks[i], chunker.text, chunker.max_length)

NonSpace(t) == SelectSeq(t, LAMBDA c : ~IsSpace(c))

RECURSIVE IsSubsequence(_, _)
IsSubsequence(s, t) ==
    IF s = <<>> THEN TRUE
    ELSE IF t = <<>> THEN FALSE
    ELSE IF Head(s) = Head(t) THEN IsSubsequence(Tail(s), Tail(t))
    ELSE IsSubsequence(s, Tail(t))

\* C19: when the text is longer than max_length and is chunked by sentences, every
\* character of the text that is not white space is found, in order, in the
\* concatenation of the chunks: the chunker may add characters, it drops or replaces none.
C19_ChunksCoverText ==
    (chunker.called /\ Len(chunker.text) > chunker.max_length) =>
        IsSubsequence(NonSpace(chunker.text), Flatten(chunker.chunks))

\* no terminator of the text is followed by white space
NoSplitPoint(text) == \A i \in 1..Len(text) : MatchEnd(text, i) = 0

\* C22: a text longer than max_length in which no sentence terminator is followed by
\* white space is returned as slices of max_length characters, the last one possibly
\* shorter, whose concatenation is the text.
C22_FallbackSlices ==
    (/\ chunker.called
     /\ Len(chunker.text) > chunker.max_length
     /\ NoSplitPoint(chunker.text))
    => /\ Flatten(chunker.chunks) = chunker.text
       /\ \A i \in 1..Len(chunker.chunks) :
            /\ Len(chunker.chunks[i]) >= 1
            /\ Len(chunker.chunks[i]) <= chunker.max_length
            /\ i < Len(chunker.chunks) => Len(chunker.chunks[i]) = chunker.max_length

IsEmptyDoc(l) == l.kind = "doc" /\ Strip(SearchableText(l)) = <<>>

\* C20: an ingest of a file of well-formed records of which some, or all, have an empty
\* or blank title, summary and body returns, counts the chunks of the other records
\* and leaves no chunk of an empty record in the store.
C20_EmptyDocumentsSkipped ==
    (/\ out.op = "ingest"
     /\ out.file.exists
     /\ ~HasBadLine(out.file)
     /\ \E i \in 1..Len(out.file.lines) : IsEmptyDoc(out.file.lines[i])
     /\ out.error # "encode")
    => /\ out.status = "ok"
       /\ out.count = Len(ChunksOfGoodLines(out.file))
       /\ \A i \in 1..Len(chunks), j \in 1..Len(out.file.lines) :
            IsEmptyDoc(out.file.lines[j]) => chunks[i].doc_id # out.file.lines[j].id

(***************************************************************************)
(* Properties of save_index and load_index                                 *)
(***************************************************************************)
Artifacts == {"faiss.index", "chunks.pkl", "config.json"}

\* the three files can be read and their counts or dimensions disagree
Inconsistent(d) ==
    /\ \A name \in Artifacts : Readable(d, name)
    /\ \/ Len(d.chunks_pkl) # d.config.num_chunks
       \/ d.faiss_index.ntotal # d.config.num_chunks
       \/ d.faiss_index.d # d.config.dimension

\* C15: a load from a directory whose chunk count, vector count or dimension disagree
\* with the config raises CorruptIndexError, and a load that returns leaves a store
\* with as many chunks as vectors.
C15_LoadRejectsInconsistent ==
    out.op = "load" =>
        /\ Inconsistent(disk) => (out.status = "raised" /\ out.error = "CorruptIndexError")
        /\ out.status = "ok" => Len(chunks) = Len(index)

WrittenFrom(g, name) ==
    CASE name = "faiss.index" -> g.faiss_index
      [] name = "chunks.pkl" -> g.chunks_pkl
      [] OTHER -> g.config

\* two readable files of the directory were written from different store states
Mixed(d, g) ==
    \E a \in Artifacts, b \in Artifacts :
        Readable(d, a) /\ Readable(d, b) /\ WrittenFrom(g, a) # WrittenFrom(g, b)

LoadReturned == out.op # "load" /\ out'.op = "load"

\* C16: a load from a directory that lacks one of the three files raises and leaves the
\* chunks and the index of the store as they were, and when no save is running the
\* files of the directory all come from one store state.
C16_SaveLoadAtomic ==
    [][/\ (LoadReturned /\ \E name \in Artifacts : name \notin disk.files)
            => (out'.status = "raised" /\ chunks' = chunks /\ index' = index)
       /\ save_pc' = 0 => ~Mixed(disk', snapshot_of')]_vars

\* the directory holds a whole save of one store state
SavedWhole ==
    /\ \A name \in Artifacts : Readable(disk, name)
    /\ ~Mixed(disk, snapshot_of)

ServiceState ==
    IF server = "starting" THEN "Uninitialized"
    ELSE IF server # "up" THEN "Crashed"
    ELSE IF rag_service # None THEN "Ready" ELSE "Unavailable"

\* in SpecApi only rag_query changes out
QueryAnswered == out' # out

\* C11: a query made while the service is Unavailable is answered with a result, not
\* an error, whose answer is not empty and whose confidence is 0.
C11_UnavailableQueryDegrades ==
    [][(ServiceState = "Unavailable" /\ QueryAnswered)
        => (out'.status = "ok" /\ out'.answer.kind # "" /\ out'.conf.num = 0)]_vars

IndexLoads(d) == d.exists /\ LoadIndex(<<>>, <<>>, d).status = "ok"

FullReload == \E r \in Requests : tasks[r].pc = "service" /\ tasks'[r] = Done

\* C12: the service never crashes; startup_event takes it from Uninitialized to Ready
\* when the index loads and to Unavailable when there is no index or the load fails;
\* a Ready service stays Ready; an Unavailable service changes state only by the last
\* step of a reload, which makes it Ready.
C12_ServiceStates ==
    [][/\ ServiceState' # "Crashed"
       /\ ServiceState' = "Uninitialized" => ServiceState = "Uninitialized"
       /\ (ServiceState = "Uninitialized" /\ ServiceState' # "Uninitialized")
            => ServiceState' = (IF IndexLoads(disk) THEN "Ready" ELSE "Unavailable")
       /\ ServiceState = "Ready" => ServiceState' = "Ready"
       /\ (ServiceState = "Unavailable" /\ ServiceState' # "Unavailable")
            => (ServiceState' = "Ready" /\ FullReload /\ IndexLoads(disk))]_vars

\* a reload has failed on chunks.pkl and the service it found Ready is still Ready
C12_Witness ==
    /\ ServiceState = "Ready"
    /\ \E r \in Requests : tasks[r] = Done
    /\ ~vector_store.none
    /\ vector_store.chunks = <<>>
    /\ vector_store.index # <<>>

\* a task is between the first and the last assignment of its reload
Reloading == \E r \in Requests : tasks[r].pc \in {"load", "service"}

\* C26: in api_server, after startup and after every reload attempt, the globals
\* vector_store and rag_service are both None or both set and loaded from the same
\* index snapshot: the health check never reports a vector store as loaded whose
\* load_index did not succeed.
C26_GlobalsSetTogether ==
    (app = "api_server" /\ server = "up" /\ ~Reloading)
    => /\ HealthCheck.vector_store_loaded = HealthCheck.rag_service_loaded
       /\ HealthCheck.vector_store_loaded
            => (vector_store.chunks = chunks /\ vector_store.index = index)

\* the place of a task's position in run_ingestion
Stage(pc) ==
    CASE pc = "idle" -> 0
      [] pc = "poc" -> 1
      [] pc = "build" -> 2
      [] pc = "save" -> 3
      [] pc = "reload" -> 4
      [] pc = "load" -> 5
      [] pc = "service" -> 6
      [] OTHER -> 7

\* C27: a background task goes through data ingestion, index build and service reload
\* in this order: its indexer starts only when its data ingestion has returned 0, its
\* reload only when its indexer has returned 0 after its last write, and a task that
\* ends before its reload, because a subprocess failed or was killed at its timeout,
\* leaves both globals as they are; nothing but a reload changes them after startup.
C27_IngestThenBuildThenReload ==
    [][/\ \A r \in Requests :
            /\ Stage(tasks'[r].pc) >= Stage(tasks[r].pc)
            /\ (tasks[r].pc # "build" /\ tasks'[r].pc = "build")
                 => (tasks[r].pc = "poc" /\ tasks'[r].returncode = 0)
            /\ (tasks[r].pc # "reload" /\ tasks'[r].pc = "reload")
                 => (/\ tasks[r].pc = "save" /\ tasks[r].n = SaveStatements
                     /\ tasks'[r].returncode = 0)
            /\ (tasks[r].pc \in {"poc", "build", "save"} /\ tasks'[r].pc = "done")
                 => (vector_store' = vector_store /\ rag_service' = rag_service)
            /\ tasks'[r].returncode # 0 => tasks'[r].pc = "done"
       /\ (server = "up" /\ (vector_store' # vector_store \/ rag_service' # rag_service))
            => \E r \in Requests :
                tasks[r].pc \in {"reload", "load", "service"} /\ tasks'[r] # tasks[r]]_vars

\* the indexer of a task was killed at its timeout after it had begun to write, and the
\* service that was Ready before is still Ready on the snapshot it had loaded
C27_Witness ==
    /\ \E r \in Requests : tasks[r].pc = "done" /\ tasks[r].returncode = Killed
    /\ \E name \in {"faiss.index", "chunks.pkl", "config.json"} : name \in disk.truncated
    /\ rag_service # None
    /\ ~vector_store.none
    /\ vector_store.chunks = chunks /\ vector_store.index = index

\* the run_ingestion task of the request has started and not returned
Running(r) == tasks[r].pc \notin {"idle", "done"}

\* C28: the ingestion runs of overlapping POST /api/ingest requests never execute at the
\* same time: at most one task is writing the data file, rebuilding the index directory
\* or swapping the globals at any moment.
C28_OneIngestionAtATime ==
    \A r1, r2 \in Requests : (Running(r1) /\ Running(r2)) => r1 = r2

\* the chunks and the index are those one indexer run has built
WholeSnapshot(cs, vectors) ==
    \E file \in DataFiles :
        LET b == AddDocumentsResult(<<>>, <<>>, file, TRUE)
        IN  cs = b.chunks /\ vectors = b.index

\* C13: every query answered by the service, whatever rebuilds and reloads run beside
\* it, searches the chunks and the index of one and the same build.
C13_QueriesSeeWholeSnapshot ==
    [][(ServiceState = "Ready" /\ QueryAnswered) => WholeSnapshot(chunks, index)]_vars

\* C14: a query, with the retrieval and the searches it makes, changes neither the index
\* nor the chunk store of the service, nor the globals, nor the index directory.
C14_QueriesLeaveStoreUnchanged ==
    [][QueryAnswered
        => (/\ chunks' = chunks
            /\ index' = index
            /\ vector_store' = vector_store
            /\ rag_service' = rag_service
            /\ disk' = disk)]_vars

\* a query has been answered from a store that holds chunks
C14_Witness ==
    /\ out.op = "query"
    /\ out.status = "ok"
    /\ Len(out.res) > 0
    /\ chunks # <<>>
(***************************************************************************)
(* Properties of the rate limiter                                          *)
(***************************************************************************)
\* C29: for every client key, under any interleaving of the calls, the requests passed on
\* to the handler since the last reset of the key's window never exceed the limit of the
\* endpoint; a call gets 429 exactly when its key is at the limit in a window that has
\* not run out, and then neither the count nor the reset time of the key has changed.
C29_RateLimitHolds ==
    [][/\ \A key \in ClientKeys : passed'[key] <= LimitConfig(key[2]).requests
       /\ \A c \in Callers :
            LET call == calls[c]
                limit == LimitConfig(call.endpoint)
            IN  (call.pc = "check" /\ calls'[c].pc # "check")
                => /\ calls'[c].status = 429
                        <=> (/\ call.seen.count >= limit.requests
                             /\ call.now <= call.seen.reset_time)
                   /\ calls'[c].status = 429
                        => (/\ rate_limit_storage'[KeyOf(call)] = call.seen
                            /\ passed' = passed
                            /\ calls'[c].pc = "done")]_vars

\* a call was answered 429 in a window that was opened after the first one, while its
\* key is at the limit and another call is under way
C29_Witness ==
    \E c \in Callers, d \in Callers :
        /\ c # d
        /\ calls[c].pc = "done" /\ calls[c].status = 429
        /\ calls[d].pc \in {"window", "check", "increment", "handler"}
        /\ passed[KeyOf(calls[c])] = LimitConfig(calls[c].endpoint).requests
        /\ calls[c].seen.reset_time > 1 + LimitConfig(calls[c].endpoint).window
        /\ calls[c].endpoint = "/api/documents"
(***************************************************************************)
(* Properties of the document cache of api_server_simple                   *)
(***************************************************************************)
\* what the file load_documents reads holds, when it can be read
WholeContent ==
    IF documents_pkl.exists THEN documents_pkl.docs ELSE NonBlank(items.lines)

\* reading the file load_documents reads raises
LoadRaises ==
    IF documents_pkl.exists THEN documents_pkl.corrupt
    ELSE \E i \in 1..Len(items.lines) : items.lines[i].kind = "malformed"

\* C30: once documents_cache is not empty no request changes it, whatever the files
\* hold by then; a cache that was empty is left empty or filled with the whole content
\* of the file that was read, and it is left empty when reading that file raised.
C30_CacheWriteOnce ==
    [][/\ documents_cache # <<>> => documents_cache' = documents_cache
       /\ (documents_cache = <<>> /\ documents_cache' # <<>>)
            => (documents_cache' = WholeContent /\ ~LoadRaises)]_vars

\* a request was answered from a cache of several documents, in another order than the
\* cache holds them, after the files the cache was loaded from had changed
C30_Witness ==
    /\ out.op = "get_documents" /\ out.status = "ok"
    /\ Len(documents_cache) > 1
    /\ Len(out.res) = Len(documents_cache)
    /\ out.res # documents_cache
    /\ WholeContent # documents_cache
    /\ LoadRaises
====
